---- MODULE Spec2Model ----
(***************************************************************************)
(* A model of songbook.py: the tag/body parser (Song.from_string), the     *)
(* slug function, the linking pass (SongBook.link_songs_and_categories)    *)
(* and the output reconciliation (SiteBuilder.delete_old_files).           *)
(*                                                                         *)
(* Python strings are sequences of one-character strings; a non-ASCII      *)
(* character is written by its code point ("U+00DF").  A Python dict is a  *)
(* sequence of [key, val] records, which keeps its insertion order.        *)
(***************************************************************************)
EXTENDS Integers, Sequences, FiniteSets, TLC

VARIABLES
  pc,               \* position of the running operation
  raised,           \* the exception that left the operation, NoException if none
  \* --- SongBook ---
  songs,            \* self.songs: per song its title, tags dict values and uniquing_string
  songs_by_slug,    \* the local dict of link_songs_and_categories
  category_names,   \* the local dict slug -> Counter of spellings
  categories_by_slug, \* the local dict slug -> Category
  categories,       \* self.categories: per Category its name and songs list
  link_index,       \* the number of songs the linking loop has finished
  \* --- Song.from_string ---
  file_contents,    \* the text handed to Song.from_string
  parsed_tags,      \* the (key, value) pairs handed on to Song.__init__
  body,             \* the lyrics handed on to Song.__init__
  filename,         \* the filename argument of Song.from_string, "" if None or empty
  new_song,         \* the list of the Song that Song.from_string returned, [] before
  \* --- SiteBuilder.delete_old_files ---
  tree,             \* the destination directory: the entries under it and their kind
  tree_before,      \* the destination directory when delete_old_files started
  keep,             \* self.keep
  created_files,    \* self.created_files
  copied_files,     \* self.copied_files
  kept_todo,        \* the kept_files the first loop has not visited yet
  kept_paths,       \* the local set kept_paths
  containing_dirs,  \* the local set containing_dirs
  parent,           \* the loop variable of the while loop
  walk_stack,       \* the directories os.walk has still to yield
  run,              \* the number of the current run of delete_old_files
  listed,           \* the names os.walk has listed in the directory it is at
  \* --- SiteBuilder.__init__, render_templates, observed_event ---
  source,           \* what the source directory holds
  exit_status,      \* the status sys.exit was called with, NoExit if it was not
  pages             \* the files of the destination that hold a generated page

link_vars == <<songs, songs_by_slug, category_names, categories_by_slug, categories,
               link_index>>
parse_vars == <<file_contents, parsed_tags, body, filename, new_song>>
recon_vars == <<tree, tree_before, keep, created_files, copied_files, kept_todo,
                kept_paths, containing_dirs, parent, walk_stack>>
extra_vars == <<run, listed, source, exit_status, pages>>
vars == <<pc, raised, link_vars, parse_vars, recon_vars, extra_vars>>

(***************************************************************************)
(* Bounds of the model.                                                    *)
(***************************************************************************)
MaxSongs == 3

MaxTextLen == 5

MaxKeepLen == 3

\* the longest list of tag pairs a song is made from
MaxPairs == 3

\* the most calls of delete_old_files in a row
MaxRuns == 2

(***************************************************************************)
(* Python values.                                                          *)
(***************************************************************************)
None == 0

\* no call of sys.exit
NoExit == -1

\* os.EX_DATAERR and os.EX_NOINPUT
EX_DATAERR == 65

EX_NOINPUT == 66

NoException == [exc |-> "", line |-> 0]

Exception(name, lineno) == [exc |-> name, line |-> lineno]

\* dict: key in d
HasKey(d, k) == \E n \in 1..Len(d) : d[n].key = k

\* dict: d[k]
Get(d, k) == d[CHOOSE n \in 1..Len(d) : d[n].key = k].val

\* dict: d[k] = v
Put(d, k, v) ==
  IF HasKey(d, k)
    THEN [n \in 1..Len(d) |-> IF d[n].key = k THEN [key |-> k, val |-> v] ELSE d[n]]
    ELSE Append(d, [key |-> k, val |-> v])

\* the elements of a list
Range(s) == {s[n] : n \in 1..Len(s)}

\* "".join(list of strings)
RECURSIVE Concat(_)
Concat(ss) == IF ss = <<>> THEN <<>> ELSE Head(ss) \o Concat(Tail(ss))

\* string.strip(ch), one side at a time
RECURSIVE LStrip(_, _)
LStrip(s, chs) == IF s # <<>> /\ Head(s) \in chs THEN LStrip(Tail(s), chs) ELSE s

RECURSIVE RStrip(_, _)
RStrip(s, chs) ==
  IF s # <<>> /\ s[Len(s)] \in chs THEN RStrip(SubSeq(s, 1, Len(s) - 1), chs) ELSE s

Strip(s, chs) == RStrip(LStrip(s, chs), chs)

\* "%d" % n
DigitChars == <<"0", "1", "2", "3", "4", "5", "6", "7", "8", "9">>

RECURSIVE ToDecimal(_)
ToDecimal(n) ==
  IF n < 10 THEN <<DigitChars[n + 1]>>
  ELSE ToDecimal(n \div 10) \o <<DigitChars[(n % 10) + 1]>>

(***************************************************************************)
(* slugify                                                                 *)
(***************************************************************************)
\* str.lower on the characters of the model
Lower(c) ==
  CASE c = "A" -> "a"
    [] c = "B" -> "b"
    [] c = "C" -> "c"
    [] c = "H" -> "h"
    [] c = "K" -> "k"
    [] c = "T" -> "t"
    [] OTHER -> c

\* the str.maketrans table: U+00F8 -> o, U+00DF -> ss, U+0153 -> ae,
\* the dashes U+2013 and U+2014 -> "-", the curly quotes -> straight quotes
Translate(c) ==
  CASE c = "U+00F8" -> <<"o">>
    [] c = "U+00DF" -> <<"s", "s">>
    [] c = "U+0153" -> <<"a", "e">>
    [] c = "U+2013" -> <<"-">>
    [] c = "U+2014" -> <<"-">>
    [] c = "U+201D" -> <<"\"">>
    [] c = "U+201C" -> <<"\"">>
    [] c = "U+2019" -> <<"'">>
    [] c = "U+2018" -> <<"'">>
    [] OTHER -> <<c>>

\* unicodedata.normalize('NFKD', c): U+00E9 decomposes to e and the combining
\* acute accent U+0301; the other characters of the model do not decompose
Decompose(c) ==
  CASE c = "U+00E9" -> <<"e", "U+0301">>
    [] OTHER -> <<c>>

\* the characters that survive encode('ascii', 'ignore'): all of the model's
\* characters but the ones written by code point
IsAscii(c) ==
  c \notin {"U+00F8", "U+00DF", "U+0153", "U+2013", "U+2014", "U+201D", "U+201C",
            "U+2019", "U+2018", "U+00E9", "U+0301", "U+4F60"}

\* the characters \w matches in an ASCII-only string
IsWord(c) ==
  c \in {"a", "b", "c", "e", "h", "o", "s", "A", "B", "C", "H",
         "0", "1", "2", "3", "4", "5", "6", "7", "8", "9", "_"}

\* re.sub(r"\W+", "-", s)
RECURSIVE SubNonWord(_)
SubNonWord(s) ==
  IF s = <<>> THEN <<>>
  ELSE IF IsWord(Head(s)) THEN <<Head(s)>> \o SubNonWord(Tail(s))
  ELSE IF Len(s) > 1 /\ ~IsWord(s[2]) THEN SubNonWord(Tail(s))
  ELSE <<"-">> \o SubNonWord(Tail(s))

slugify(string) ==
  LET lowered == [n \in 1..Len(string) |-> Lower(string[n])]
      special_translation == Concat([n \in 1..Len(lowered) |-> Translate(lowered[n])])
      decomposed == Concat([n \in 1..Len(special_translation) |->
                              Decompose(special_translation[n])])
      ascii_only == SelectSeq(decomposed, IsAscii)
      alphanum == Strip(SubNonWord(ascii_only), {"-"})
  IN  alphanum

(***************************************************************************)
(* Song                                                                    *)
(***************************************************************************)
\* A Song as Song.__init__ leaves it: title, the values of the aka, see and
\* tags entries of self.tags ([] when absent), no uniquing_string attribute
\* (getattr's default ""), see = [] and categories = [].
Song(title, aka, see_titles, tag_names) ==
  [title |-> title, aka |-> aka, see_titles |-> see_titles, tag_names |-> tag_names,
   uniquing_string |-> <<>>, see |-> <<>>, categories |-> <<>>]

\* the property Song.slug
SongSlug(song) == slugify(song.title) \o song.uniquing_string

\* the property Category.slug
CategorySlug(category) == slugify(category.name)

(***************************************************************************)
(* SongBook.link_songs_and_categories: slugs                               *)
(***************************************************************************)
\* songs_by_slug[slug].append(song), creating the list when the key is new
Register(d, slug, s) ==
  IF HasKey(d, slug) THEN Put(d, slug, Append(Get(d, slug), s)) ELSE Put(d, slug, <<s>>)

\* the loop "Add all songs by their default title", from song n on
RECURSIVE AddByTitle(_, _, _)
AddByTitle(d, ss, n) ==
  IF n > Len(ss) THEN d
  ELSE AddByTitle(Register(d, slugify(ss[n].title), n), ss, n + 1)

\* "-%d" % uniquing_number
UniquingString(uniquing_number) == <<"-">> \o ToDecimal(uniquing_number)

\* the exit test of the while loop: song.slug not in songs_by_slug
SlugInUse_never(d, slug) == FALSE

SlugInUse(d, slug) == HasKey(d, slug)

\* uniquing_number += 1
NextUniquingNumber(uniquing_number) == uniquing_number + 1

\* the while True loop: the number the song ends up with
RECURSIVE WhileTrue(_, _, _)
WhileTrue(d, song, uniquing_number) ==
  IF ~SlugInUse(d, SongSlug([song EXCEPT !.uniquing_string = UniquingString(uniquing_number)]))
    THEN uniquing_number
    ELSE WhileTrue(d, song, NextUniquingNumber(uniquing_number))

\* for song in shared_slug_songs[1:], with the songs still to do in rest
RECURSIVE ForSharedSlugSongs(_, _, _, _)
ForSharedSlugSongs(d, ss, rest, uniquing_number) ==
  IF rest = <<>> THEN ss
  ELSE LET s == Head(rest)
           n == WhileTrue(d, ss[s], uniquing_number)
       IN  ForSharedSlugSongs(d, [ss EXCEPT ![s].uniquing_string = UniquingString(n)],
                              Tail(rest), NextUniquingNumber(n))

\* for slug, shared_slug_songs in songs_by_slug.items(), from item g on
RECURSIVE MakeUnique_from_one(_, _, _)
MakeUnique_from_one(d, ss, g) ==
  IF g > Len(d) THEN ss
  ELSE MakeUnique_from_one(d, ForSharedSlugSongs(d, ss, Tail(d[g].val), 1), g + 1)

RECURSIVE MakeUnique(_, _, _)
MakeUnique(d, ss, g) ==
  IF g > Len(d) THEN ss
  ELSE MakeUnique(d, ForSharedSlugSongs(d, ss, Tail(d[g].val), 2), g + 1)

\* the loop "Add songs by any AKA titles", from alias k of song n on
RECURSIVE AddByAka(_, _, _, _)
AddByAka(d, ss, n, k) ==
  IF n > Len(ss) THEN d
  ELSE IF k > Len(ss[n].aka) THEN AddByAka(d, ss, n + 1, 1)
  ELSE AddByAka(Register(d, slugify(ss[n].aka[k]), n), ss, n, k + 1)

(***************************************************************************)
(* SongBook.link_songs_and_categories: categories                          *)
(***************************************************************************)
\* category_names[category_slug][category_name] += 1
CountName(d, category_name) ==
  LET category_slug == slugify(category_name)
      counter == IF HasKey(d, category_slug) THEN Get(d, category_slug) ELSE <<>>
      count == IF HasKey(counter, category_name) THEN Get(counter, category_name) ELSE 0
  IN  Put(d, category_slug, Put(counter, category_name, count + 1))

\* the loop "Get all the category names", from tag k of song n on
RECURSIVE CountNames(_, _, _, _)
CountNames(d, ss, n, k) ==
  IF n > Len(ss) THEN d
  ELSE IF k > Len(ss[n].tag_names) THEN CountNames(d, ss, n + 1, 1)
  ELSE CountNames(CountName(d, ss[n].tag_names[k]), ss, n, k + 1)

\* names.most_common(1)[0][0]: max() keeps the first of the largest counts
MostCommon_last(names) ==
  names[CHOOSE n \in 1..Len(names) :
          /\ \A m \in 1..Len(names) : names[m].val <= names[n].val
          /\ \A m \in (n + 1)..Len(names) : names[m].val < names[n].val].key

MostCommon(names) ==
  names[CHOOSE n \in 1..Len(names) :
          /\ \A m \in 1..Len(names) : names[m].val <= names[n].val
          /\ \A m \in 1..(n - 1) : names[m].val < names[n].val].key

\* Category(name)
Category(name) == [name |-> name, songs |-> <<>>]

(***************************************************************************)
(* SongBook.link_songs_and_categories: the lookup helpers                  *)
(***************************************************************************)
Return(value) == [raises |-> FALSE, exception |-> NoException, value |-> value]

Raise(name, lineno) == [raises |-> TRUE, exception |-> Exception(name, lineno), value |-> None]

\* song_for_title(title), called while the linking loop is at the song `song`:
\* the comprehensions test the loop's song, not their own s, and aka_songs is
\* not defined anywhere
song_for_title(d, ss, song, title) ==
  LET slug == slugify(title)
      songs0 == Get(d, slug)
      title_songs == SelectSeq(songs0, LAMBDA s : title = ss[song].title)
      songs1 == SelectSeq(songs0, LAMBDA s : title = ss[song].title
                                             \/ title \in Range(ss[song].aka))
  IN  IF ~HasKey(d, slug) THEN Return(None)
      ELSE IF Len(songs0) > 1 THEN Raise("NameError", 261)
      ELSE IF Len(songs0) = 0 THEN Return(None)
      ELSE Return(songs0[1])

\* category_for_tag(name)
category_for_tag_first(d, name) == IF d = <<>> THEN None ELSE d[1].val

category_for_tag(d, name) ==
  IF HasKey(d, slugify(name)) THEN Get(d, slugify(name)) ELSE None

(***************************************************************************)
(* SongBook.link_songs_and_categories: the steps                           *)
(***************************************************************************)
\* lines 205-211: group the songs by the slug of their title
GroupBySlug ==
  /\ pc = "group"
  /\ songs_by_slug' = AddByTitle(<<>>, songs, 1)
  /\ pc' = "unique"
  /\ UNCHANGED <<raised, songs, category_names, categories_by_slug, categories, link_index,
                 parse_vars, recon_vars, extra_vars>>

\* lines 213-221: give the later songs of every group a uniquing_string
UniquifySlugs ==
  /\ pc = "unique"
  /\ songs' = MakeUnique(songs_by_slug, songs, 1)
  /\ pc' = "aka"
  /\ UNCHANGED <<raised, songs_by_slug, category_names, categories_by_slug, categories,
                 link_index, parse_vars, recon_vars, extra_vars>>

\* lines 223-228: register the songs under their aka titles
RegisterAka ==
  /\ pc = "aka"
  /\ songs_by_slug' = AddByAka(songs_by_slug, songs, 1, 1)
  /\ pc' = "names"
  /\ UNCHANGED <<raised, songs, category_names, categories_by_slug, categories, link_index,
                 parse_vars, recon_vars, extra_vars>>

\* lines 231-237: count the spellings of every category slug
CountCategoryNames ==
  /\ pc = "names"
  /\ category_names' = CountNames(<<>>, songs, 1, 1)
  /\ pc' = "create"
  /\ UNCHANGED <<raised, songs, songs_by_slug, categories_by_slug, categories, link_index,
                 parse_vars, recon_vars, extra_vars>>

\* lines 239-245: one Category per item of category_names
CreateCategories ==
  /\ pc = "create"
  /\ categories' = [g \in 1..Len(category_names) |->
                      Category(MostCommon(category_names[g].val))]
  /\ categories_by_slug' = [g \in 1..Len(category_names) |->
                              [key |-> category_names[g].key, val |-> g]]
  /\ link_index' = 0
  /\ pc' = IF Len(songs) = 0 THEN "log" ELSE "link"
  /\ UNCHANGED <<raised, songs, songs_by_slug, category_names, parse_vars, recon_vars, extra_vars>>

\* category.songs.append(song) for the memberships k, k+1, ... of one song
RECURSIVE AppendSong(_, _, _, _)
AppendSong(cs, memberships, song, k) ==
  IF k > Len(memberships) THEN cs
  ELSE AppendSong([cs EXCEPT ![memberships[k][2]].songs = Append(@, song)],
                  memberships, song, k + 1)

\* lines 285-296: one iteration of the linking loop
LinkSong ==
  /\ pc = "link"
  /\ link_index < Len(songs)
  /\ LET song == link_index + 1
         titles == songs[song].see_titles
         found == [k \in 1..Len(titles) |->
                     song_for_title(songs_by_slug, songs, song, titles[k])]
         failing == {k \in 1..Len(titles) : found[k].raises}
         first_failing == CHOOSE k \in failing : \A m \in failing : k <= m
         tag_names == songs[song].tag_names
         memberships == [k \in 1..Len(tag_names) |->
                           <<tag_names[k], category_for_tag(categories_by_slug, tag_names[k])>>]
         missing == {k \in 1..Len(tag_names) : memberships[k][2] = None}
         first_missing == CHOOSE k \in missing : \A m \in missing : k <= m
     IN  IF failing # {}
           THEN /\ songs' = [songs EXCEPT ![song].see =
                               [k \in 1..(first_failing - 1) |-> <<titles[k], found[k].value>>]]
                /\ raised' = found[first_failing].exception
                /\ pc' = "raised"
                /\ UNCHANGED <<categories, link_index>>
         ELSE IF missing # {}
           THEN /\ songs' = [songs EXCEPT
                               ![song].see = [k \in 1..Len(titles) |-> <<titles[k], found[k].value>>],
                               ![song].categories = SubSeq(memberships, 1, first_missing)]
                /\ categories' = AppendSong(categories, SubSeq(memberships, 1, first_missing - 1),
                                            song, 1)
                /\ raised' = Exception("AttributeError", 296)
                /\ pc' = "raised"
                /\ UNCHANGED link_index
         ELSE /\ songs' = [songs EXCEPT
                             ![song].see = [k \in 1..Len(titles) |-> <<titles[k], found[k].value>>],
                             ![song].categories = memberships]
              /\ categories' = AppendSong(categories, memberships, song, 1)
              /\ link_index' = song
              /\ pc' = IF song = Len(songs) THEN "log" ELSE "link"
              /\ UNCHANGED raised
  /\ UNCHANGED <<songs_by_slug, category_names, categories_by_slug, parse_vars, recon_vars, extra_vars>>

\* lines 298-299: self.categories is a list and has no items()
LogSummary ==
  /\ pc = "log"
  /\ raised' = Exception("AttributeError", 299)
  /\ pc' = "raised"
  /\ UNCHANGED <<link_vars, parse_vars, recon_vars, extra_vars>>

NextLink ==
  \/ GroupBySlug
  \/ UniquifySlugs
  \/ RegisterAka
  \/ CountCategoryNames
  \/ CreateCategories
  \/ LinkSong
  \/ LogSummary

(***************************************************************************)
(* The songs a load can produce.                                           *)
(***************************************************************************)
\* titles: a title tag value or a file name without its extension
Titles ==
  { <<"A">>, <<"a">>, <<"a", " ", "2">>, <<"a", "-", "3">>, <<"a", "!">>,
    <<"!">>, <<>>, <<"U+4F60">>, <<"U+00E9">>, <<"e">> }

SlugSongs == { Song(t, <<>>, <<>>, <<>>) : t \in Titles }

SeeSongs ==
  { Song(t, a, s, <<>>) :
      t \in { <<"a">>, <<"b">> },
      a \in { <<>>, << <<"A">> >> },
      s \in { <<>>, << <<"A">> >>, << <<"a">>, <<"c">> >> } }

TagSongs ==
  { Song(<<"a">>, <<>>, <<>>, g) :
      g \in { <<>>, << <<"H">> >>, << <<"h">> >>, << <<"h">>, <<"C">> >>,
              << <<"H">>, <<"c">>, <<"H">> >> } }

\* every list of at most MaxSongs songs over a set of songs
SongLists(S) == UNION { [1..n -> S] : n \in 0..MaxSongs }

ParseIdle ==
  /\ file_contents = <<>> /\ parsed_tags = <<>> /\ body = <<>>
  /\ filename = <<>> /\ new_song = <<>>

ReconIdle ==
  /\ tree = {} /\ tree_before = {} /\ keep = {} /\ created_files = {}
  /\ copied_files = {} /\ kept_todo = {} /\ kept_paths = {} /\ containing_dirs = {}
  /\ parent = <<>> /\ walk_stack = <<>>

\* the source directory of the runs that do not look at it: complete
NoSource ==
  [kind |-> "dir", subdirs |-> {"songs", "templates"}, templates |-> {}, broken |-> {},
   static |-> {}]

ExtraIdle ==
  /\ run = 1 /\ listed = <<>> /\ source = NoSource /\ exit_status = NoExit /\ pages = {}

InitLink(S) ==
  /\ pc = "group"
  /\ raised = NoException
  /\ songs \in SongLists(S)
  /\ songs_by_slug = <<>>
  /\ category_names = <<>>
  /\ categories_by_slug = <<>>
  /\ categories = <<>>
  /\ link_index = 0
  /\ ParseIdle
  /\ ReconIdle
  /\ ExtraIdle

InitSlugs == InitLink(SlugSongs)

InitSee == InitLink(SeeSongs)

InitTags == InitLink(TagSongs)

SpecSlugs == InitSlugs /\ [][NextLink]_vars

SpecSee == InitSee /\ [][NextLink]_vars

SpecTags == InitTags /\ [][NextLink]_vars

(***************************************************************************)
(* Slugs of the songs (SpecSlugs).                                         *)
(***************************************************************************)
\* the slug-assignment pass (lines 205-221) is over
SlugsAssigned == pc \notin {"group", "unique"}

\* the slugs of the primary titles
TitleSlugs == { slugify(songs[n].title) : n \in 1..Len(songs) }

\* the songs of the group of slug s, as the set of their positions in load order
Group(s) == { n \in 1..Len(songs) : slugify(songs[n].title) = s }

\* C1: after the slug-assignment pass no two distinct songs have equal slugs.
C1_UniqueSlugs ==
  SlugsAssigned =>
    \A m, n \in 1..Len(songs) : m # n => SongSlug(songs[m]) # SongSlug(songs[n])

\* C1: two songs whose titles have the same slug have been through the pass
C1_Witness ==
  /\ pc = "aka"
  /\ \E m, n \in 1..Len(songs) :
       m # n /\ slugify(songs[m].title) = slugify(songs[n].title)

\* the uniquing number of song n: 1 for the bare slug, 0 if the suffix is no "-%d"
UniquingNumber(n) ==
  IF songs[n].uniquing_string = <<>> THEN 1
  ELSE IF \E u \in 2..(2 * Len(songs) + 2) : songs[n].uniquing_string = UniquingString(u)
    THEN CHOOSE u \in 2..(2 * Len(songs) + 2) : songs[n].uniquing_string = UniquingString(u)
    ELSE 0

\* C8: in every group of songs with the same title slug s the first song in load
\* order keeps the bare slug and each later one gets s-n, n from 2 on and
\* strictly increasing in load order, having skipped exactly the candidates
\* s-n that are title slugs of some song.
C8_GroupNumbering ==
  SlugsAssigned =>
    \A s \in TitleSlugs :
      \A n \in Group(s) :
        LET earlier == { m \in Group(s) : m < n }
            previous == CHOOSE m \in earlier : \A k \in earlier : k <= m
            start == IF earlier = {} THEN 1 ELSE UniquingNumber(previous)
        IN  IF earlier = {}
              THEN songs[n].uniquing_string = <<>>
              ELSE /\ UniquingNumber(n) >= 2
                   /\ UniquingNumber(n) > start
                   /\ s \o UniquingString(UniquingNumber(n)) \notin TitleSlugs
                   /\ \A u \in (start + 1)..(UniquingNumber(n) - 1) :
                        s \o UniquingString(u) \in TitleSlugs

\* C8: a later song of a group got the number 3 because s-2 is a title's slug
C8_Witness ==
  /\ pc = "aka"
  /\ \E n, k \in 1..Len(songs) :
       /\ songs[n].uniquing_string = UniquingString(3)
       /\ slugify(songs[k].title) = slugify(songs[n].title) \o UniquingString(2)

\* C9: every song of a load has a non-empty slug.
C9_NonEmptySlug ==
  SlugsAssigned => \A n \in 1..Len(songs) : SongSlug(songs[n]) # <<>>

(***************************************************************************)
(* Lookups by title (SpecSee).                                             *)
(***************************************************************************)
\* the linking loop has called song_for_title for the k-th see title of song n
LookedUp(n, k) ==
  \/ k <= Len(songs[n].see)
  \/ pc = "raised" /\ link_index = n - 1 /\ k = Len(songs[n].see) + 1

\* that call returned the value v
Returned(n, k, v) == k <= Len(songs[n].see) /\ songs[n].see[k][2] = v

\* song t matches the title q exactly, by title or by alias
ExactMatch(t, q) == q = songs[t].title \/ q \in Range(songs[t].aka)

\* C3: song_for_title(q) returns a song that matches q exactly when q is an
\* alias of a song and another song's title has the slug of q without being q.
C3_AliasOutranksSlug ==
  \A n \in 1..Len(songs) : \A k \in 1..Len(songs[n].see_titles) :
    LET q == songs[n].see_titles[k] IN
      ( /\ LookedUp(n, k)
        /\ \E t, u \in 1..Len(songs) :
             /\ t # u
             /\ q \in Range(songs[t].aka)
             /\ slugify(songs[u].title) = slugify(q)
             /\ songs[u].title # q )
      => \E v \in 1..Len(songs) : Returned(n, k, v) /\ ExactMatch(v, q)

\* C4: song_for_title never raises: it returns a song or the absent marker.
C4_LookupReturns ==
  \A n \in 1..Len(songs) : \A k \in 1..Len(songs[n].see_titles) :
    LookedUp(n, k) => \E v \in {None} \cup (1..Len(songs)) : Returned(n, k, v)

\* C5: loading and linking returns normally: no exception reaches the caller.
C5_LinkingReturns == raised = NoException

(***************************************************************************)
(* Categories (SpecTags).                                                  *)
(***************************************************************************)
\* all tags values of all songs, in song order and then in tag order
AllTagNames == Concat([n \in 1..Len(songs) |-> songs[n].tag_names])

Occurrences(name) == Cardinality({ k \in 1..Len(AllTagNames) : AllTagNames[k] = name })

FirstOccurrence(name) ==
  CHOOSE k \in 1..Len(AllTagNames) :
    AllTagNames[k] = name /\ \A m \in 1..(k - 1) : AllTagNames[m] # name

\* the category discovery pass (lines 230-245) is over
CategoriesCreated == pc \in {"link", "log", "raised"}

\* C6: there is exactly one Category per distinct slug of the songs' tags values;
\* its name is the spelling of that slug that occurs most often over all songs,
\* the first-encountered one on a tie, and its slug is that slug.
C6_CanonicalCategories ==
  CategoriesCreated =>
    /\ \A c, d \in 1..Len(categories) :
         c # d => CategorySlug(categories[c]) # CategorySlug(categories[d])
    /\ { CategorySlug(categories[c]) : c \in 1..Len(categories) }
         = { slugify(name) : name \in Range(AllTagNames) }
    /\ \A c \in 1..Len(categories) :
         /\ categories[c].name \in Range(AllTagNames)
         /\ \A other \in Range(AllTagNames) :
              other # categories[c].name /\ slugify(other) = CategorySlug(categories[c])
              => \/ Occurrences(other) < Occurrences(categories[c].name)
                 \/ /\ Occurrences(other) = Occurrences(categories[c].name)
                    /\ FirstOccurrence(categories[c].name) < FirstOccurrence(other)

\* C6: a category was created for a slug with two equally frequent spellings and
\* one for a slug whose most frequent spelling is not the first-encountered
C6_Witness ==
  /\ pc = "link"
  /\ \E x, y \in Range(AllTagNames) :
       /\ x # y /\ slugify(x) = slugify(y) /\ Occurrences(x) = Occurrences(y)
       /\ FirstOccurrence(x) < FirstOccurrence(y)
       /\ \E c \in 1..Len(categories) : categories[c].name = x

\* C7: once the linking loop is through, every song's categories list has one
\* (tag spelling, Category) entry per value of its tags field, in order, the
\* Category being the one whose slug is the slug of the spelling; that Category
\* lists the song, and every Category lists its songs in processing order.
C7_Memberships ==
  (pc \in {"log", "raised"} /\ link_index = Len(songs)) =>
    /\ \A n \in 1..Len(songs) :
         /\ Len(songs[n].categories) = Len(songs[n].tag_names)
         /\ \A k \in 1..Len(songs[n].tag_names) :
              LET entry == songs[n].categories[k] IN
                /\ entry[1] = songs[n].tag_names[k]
                /\ entry[2] \in 1..Len(categories)
                /\ CategorySlug(categories[entry[2]]) = slugify(songs[n].tag_names[k])
                /\ n \in Range(categories[entry[2]].songs)
    /\ \A c \in 1..Len(categories) :
         \A k \in 1..(Len(categories[c].songs) - 1) :
           categories[c].songs[k] <= categories[c].songs[k + 1]

\* C7: the loop is through, a song has two tags in two categories and a
\* category has two songs
C7_Witness ==
  /\ pc = "log"
  /\ \E n \in 1..Len(songs) :
       /\ Len(songs[n].categories) = 2
       /\ songs[n].categories[1][2] # songs[n].categories[2][2]
  /\ \E c \in 1..Len(categories) : Cardinality(Range(categories[c].songs)) >= 2

(***************************************************************************)
(* Song.__init__ and Song.from_string                                      *)
(***************************************************************************)
SONG_EXTENSION == <<".", "t", "x", "t">>

single_tags ==
  { <<"c", "o", "p", "y", "r", "i", "g", "h", "t">>, <<"s", "o", "u", "r", "c", "e">>,
    <<"t", "i", "t", "l", "e">>, <<"t", "u", "n", "e">> }

array_tags == { <<"a", "k", "a">>, <<"s", "e", "e">>, <<"t", "a", "g", "s">> }

all_tags == single_tags \cup array_tags

\* the white space str.strip() removes, among the characters of the model
Whitespace == {" ", "\n"}

\* the position of the first ch in s, 0 if there is none
Find(s, ch) ==
  IF ch \in Range(s) THEN CHOOSE n \in 1..Len(s) : s[n] = ch /\ \A m \in 1..(n - 1) : s[m] # ch
  ELSE 0

\* string.split(ch)
RECURSIVE Split(_, _)
Split(s, ch) ==
  IF Find(s, ch) = 0 THEN <<s>>
  ELSE <<SubSeq(s, 1, Find(s, ch) - 1)>> \o Split(SubSeq(s, Find(s, ch) + 1, Len(s)), ch)

\* string.splitlines(): a line ends at its "\n", no empty piece after the last one
RECURSIVE SplitLines(_)
SplitLines(s) ==
  IF s = <<>> THEN <<>>
  ELSE IF Find(s, "\n") = 0 THEN <<s>>
  ELSE <<SubSeq(s, 1, Find(s, "\n") - 1)>> \o SplitLines(SubSeq(s, Find(s, "\n") + 1, Len(s)))

\* "\n".join(lines)
RECURSIVE JoinLines(_)
JoinLines(lines) ==
  IF lines = <<>> THEN <<>>
  ELSE IF Len(lines) = 1 THEN lines[1]
  ELSE lines[1] \o <<"\n">> \o JoinLines(Tail(lines))

\* [v.strip() for v in value.split(",") if v.strip()]
ArrayValue(value) ==
  LET parts == Split(value, ",")
      stripped == [n \in 1..Len(parts) |-> Strip(parts[n], Whitespace)]
  IN  SelectSeq(stripped, LAMBDA v : v # <<>>)

\* the loop with the test of line 80 left out: the last pair of a name wins
RECURSIVE StoreTags_last_wins(_, _, _)
StoreTags_last_wins(d, pairs, n) ==
  IF n > Len(pairs) THEN d
  ELSE LET key == pairs[n][1]
           value == pairs[n][2]
           tag == [k \in 1..Len(key) |-> Lower(key[k])]
       IN  IF tag \notin all_tags THEN StoreTags_last_wins(d, pairs, n + 1)
           ELSE IF tag \in array_tags
             THEN StoreTags_last_wins(Put(d, tag, ArrayValue(value)), pairs, n + 1)
           ELSE StoreTags_last_wins(Put(d, tag, value), pairs, n + 1)

\* the loop over the (key, value) pairs, from pair n on, filling self.tags
RECURSIVE StoreTags(_, _, _)
StoreTags(d, pairs, n) ==
  IF n > Len(pairs) THEN d
  ELSE LET key == pairs[n][1]
           value == pairs[n][2]
           tag == [k \in 1..Len(key) |-> Lower(key[k])]
       IN  IF tag \notin all_tags THEN StoreTags(d, pairs, n + 1)
           ELSE IF HasKey(d, tag) THEN StoreTags(d, pairs, n + 1)
           ELSE IF tag \in array_tags THEN StoreTags(Put(d, tag, ArrayValue(value)), pairs, n + 1)
           ELSE StoreTags(Put(d, tag, value), pairs, n + 1)

\* string.endswith(suffix)
EndsWith(s, suffix) ==
  Len(s) >= Len(suffix) /\ SubSeq(s, Len(s) - Len(suffix) + 1, Len(s)) = suffix

\* lines 86-95: the title of a song
SongTitle(d, name) ==
  LET replaced == [k \in 1..Len(name) |-> IF name[k] = "_" THEN " " ELSE name[k]]
  IN  IF HasKey(d, <<"t", "i", "t", "l", "e">>) THEN Get(d, <<"t", "i", "t", "l", "e">>)
      ELSE IF name # <<>>
        THEN IF EndsWith(replaced, SONG_EXTENSION)
               THEN SubSeq(replaced, 1, Len(replaced) - Len(SONG_EXTENSION))
               ELSE replaced
      ELSE <<"U", "n", "k", "n", "o", "w", "n">>

\* Song(tags, lyrics, filename)
SongInit(pairs, lyrics, name) ==
  LET d == StoreTags(<<>>, pairs, 1)
  IN  [tags |-> d, title |-> SongTitle(d, name), raw_lyrics |-> lyrics,
       aka |-> IF HasKey(d, <<"a", "k", "a">>) THEN Get(d, <<"a", "k", "a">>) ELSE <<>>]

\* the tag lines the loop of from_string appends: the lines before the first
\* line without a colon
TagLineCount(lines) ==
  IF \E n \in 1..Len(lines) : Find(lines[n], ":") = 0
    THEN (CHOOSE n \in 1..Len(lines) :
            Find(lines[n], ":") = 0 /\ \A m \in 1..(n - 1) : Find(lines[m], ":") # 0) - 1
    ELSE Len(lines)

\* (tag, value) of a tag line: line.split(':', 1), both parts stripped
TagPair(line) ==
  << Strip(SubSeq(line, 1, Find(line, ":") - 1), Whitespace),
     Strip(SubSeq(line, Find(line, ":") + 1, Len(line)), Whitespace) >>

\* the value of index after the loop, counted from 1: the line the loop broke
\* at, or the last line when it saw no line without a colon
IndexAfterLoop(lines) ==
  IF TagLineCount(lines) < Len(lines) THEN TagLineCount(lines) + 1 ELSE Len(lines)

\* lines 116-126; with no line at all, index is unbound at line 125
FromString ==
  /\ pc = "parse"
  /\ LET lines == SplitLines(file_contents)
         tags == [n \in 1..TagLineCount(lines) |-> TagPair(lines[n])]
         lyrics == Strip(JoinLines(SubSeq(lines, IndexAfterLoop(lines), Len(lines))), {"\n"})
     IN  IF lines = <<>>
           THEN /\ parsed_tags' = tags
                /\ raised' = Exception("UnboundLocalError", 125)
                /\ pc' = "raised"
                /\ UNCHANGED <<body, new_song>>
           ELSE /\ parsed_tags' = tags
                /\ body' = lyrics
                /\ new_song' = <<SongInit(tags, lyrics, filename)>>
                /\ pc' = "parsed"
                /\ UNCHANGED raised
  /\ UNCHANGED <<file_contents, filename, link_vars, recon_vars, extra_vars>>

NextParse == FromString

\* the characters of the song files of the model
TextChars == {"a", ":", "\n", " "}

Texts == UNION { [1..n -> TextChars] : n \in 0..MaxTextLen }

LinkIdle ==
  /\ songs = <<>> /\ songs_by_slug = <<>> /\ category_names = <<>>
  /\ categories_by_slug = <<>> /\ categories = <<>> /\ link_index = 0

InitParse ==
  /\ pc = "parse"
  /\ raised = NoException
  /\ file_contents \in Texts
  /\ filename \in {<<>>, <<"a", "_", "a", ".", "t", "x", "t">>}
  /\ parsed_tags = <<>>
  /\ body = <<>>
  /\ new_song = <<>>
  /\ LinkIdle
  /\ ReconIdle
  /\ ExtraIdle

SpecParse == InitParse /\ [][NextParse]_vars

(***************************************************************************)
(* Song(tags, lyrics, filename) called with a list of pairs (SpecConstruct). *)
(***************************************************************************)
\* lines 61-101
SongConstruct ==
  /\ pc = "construct"
  /\ new_song' = <<SongInit(parsed_tags, body, filename)>>
  /\ pc' = "constructed"
  /\ UNCHANGED <<raised, file_contents, parsed_tags, body, filename,
                 link_vars, recon_vars, extra_vars>>

NextConstruct == SongConstruct

\* the keys of the pairs: recognized names in two spellings, and another name
TagKeys ==
  { <<"t", "i", "t", "l", "e">>, <<"T", "i", "t", "l", "e">>,
    <<"a", "k", "a">>, <<"A", "K", "A">>, <<"x">> }

\* the values of the pairs
TagValues == { <<"a">>, <<"b", ",", " ", "a">> }

TagPairs == { <<k, v>> : k \in TagKeys, v \in TagValues }

PairLists == UNION { [1..n -> TagPairs] : n \in 0..MaxPairs }

InitConstruct ==
  /\ pc = "construct"
  /\ raised = NoException
  /\ file_contents = <<>>
  /\ filename = <<>>
  /\ parsed_tags \in PairLists
  /\ body = <<>>
  /\ new_song = <<>>
  /\ LinkIdle
  /\ ReconIdle
  /\ ExtraIdle

SpecConstruct == InitConstruct /\ [][NextConstruct]_vars

(***************************************************************************)
(* The body of a parsed song (SpecParse).                                  *)
(***************************************************************************)
\* a tag line is a line that contains a colon
IsTagLine(line) == ":" \in Range(line)

\* the text from the first line without a colon to the end of the input,
\* without the empty lines at its two ends; empty if there is no such line
TextAfterTags(text) ==
  LET lines == SplitLines(text)
      plain == { n \in 1..Len(lines) : ~IsTagLine(lines[n]) }
      first == CHOOSE n \in plain : \A m \in plain : n <= m
  IN  IF plain = {} THEN <<>>
      ELSE Strip(JoinLines(SubSeq(lines, first, Len(lines))), {"\n"})

\* C10: the body from_string returns is the text from the first line without
\* a colon to the end of the input, blank lines at the ends trimmed; no tag line
\* is part of it, so a text of tag lines only has the empty body.
C10_BodyAfterTags == pc = "parsed" => body = TextAfterTags(file_contents)

\* a text none of whose lines is a tag line; the empty text is one
NoTagLines(text) ==
  LET lines == SplitLines(text)
  IN  \A n \in 1..Len(lines) : ~IsTagLine(lines[n])

\* C11: for every text without tag lines, the empty text included, from_string
\* does not fail: it returns a song with no tags whose body is the whole text
\* (the newlines at its two ends apart).
C11_NoTagLinesParse ==
  (pc # "parse" /\ NoTagLines(file_contents)) =>
    /\ pc = "parsed"
    /\ parsed_tags = <<>>
    /\ new_song # <<>> /\ new_song[1].tags = <<>>
    /\ body = Strip(file_contents, {"\n"})

\* C11 without the empty text: every other text without tag lines is parsed
\* into a song with no tags whose body is the text
C11_NonEmptyNoTagLines ==
  (pc # "parse" /\ NoTagLines(file_contents) /\ file_contents # <<>>) =>
    /\ pc = "parsed"
    /\ parsed_tags = <<>>
    /\ new_song # <<>> /\ new_song[1].tags = <<>>
    /\ body = Strip(file_contents, {"\n"})

(***************************************************************************)
(* The tags a song keeps (SpecConstruct).                                  *)
(***************************************************************************)
\* a key in lower case
LowerCase(key) == [k \in 1..Len(key) |-> Lower(key[k])]

\* the positions of the pairs whose key is the name, whatever its case
PairsNamed(pairs, name) == { n \in 1..Len(pairs) : LowerCase(pairs[n][1]) = name }

\* the first of a non-empty set of positions
First(positions) == CHOOSE n \in positions : \A m \in positions : n <= m

\* the form a value is stored in: a list of titles for an array tag
StoredForm(name, value) == IF name \in array_tags THEN ArrayValue(value) ELSE value

\* C12: for any list of (key, value) pairs the constructor ends, and the song
\* has under each recognized name the value of the first pair of that name
\* (case ignored), nothing of the later pairs of the name, and no entry for a
\* key that is not recognized.
C12_FirstPairWins ==
  pc # "construct" =>
    /\ pc = "constructed" /\ raised = NoException /\ new_song # <<>>
    /\ \A name \in all_tags :
         IF PairsNamed(parsed_tags, name) = {}
           THEN ~HasKey(new_song[1].tags, name)
           ELSE /\ HasKey(new_song[1].tags, name)
                /\ Get(new_song[1].tags, name) =
                     StoredForm(name, parsed_tags[First(PairsNamed(parsed_tags, name))][2])
    /\ \A n \in 1..Len(new_song[1].tags) : new_song[1].tags[n].key \in all_tags

\* a song made from pairs with a name given twice with two values, in two
\* spellings, and with a key that is not recognized
C12_Witness ==
  /\ pc = "constructed"
  /\ \E name \in all_tags : \E n, m \in PairsNamed(parsed_tags, name) :
       n < m /\ parsed_tags[n][2] # parsed_tags[m][2] /\ parsed_tags[n][1] # parsed_tags[m][1]
  /\ \E n \in 1..Len(parsed_tags) : LowerCase(parsed_tags[n][1]) \notin all_tags

(***************************************************************************)
(* Paths: posixpath.join, os.path.dirname and the file system.             *)
(***************************************************************************)
\* os.path.join(a, b)
PathJoin(a, b) ==
  IF b # <<>> /\ b[1] = "/" THEN b
  ELSE IF a = <<>> \/ a[Len(a)] = "/" THEN a \o b
  ELSE a \o <<"/">> \o b

\* os.path.dirname(p): up to the last "/", without the slashes at the end
\* unless there is nothing but slashes
DirName(p) ==
  LET slashes == { n \in 1..Len(p) : p[n] = "/" }
      last == CHOOSE n \in slashes : \A m \in slashes : m <= n
      head == IF slashes = {} THEN <<>> ELSE SubSeq(p, 1, last)
  IN  IF head # <<>> /\ \E n \in 1..Len(head) : head[n] # "/"
        THEN RStrip(head, {"/"})
        ELSE head

\* self.destination, a path relative to the working directory
destination == <<"d">>

\* A directory tree is the set of the entries under the destination, each with
\* the list of names that leads to it from the destination and its kind.
\* A place of the file system is the root directory, the directory above the
\* working directory, the working directory, or the destination with the
\* names that lead from it to an entry; NoPlace stands for no such file.
RootDir == <<"/">>

AboveWorkDir == <<"..">>

WorkDir == <<".">>

DestDir == <<".", "d">>

NoPlace == <<>>

\* the names that lead from the destination to a place under it
RelPath(place) == SubSeq(place, 3, Len(place))

InDest(place) == Len(place) >= 2 /\ place[1] = "." /\ place[2] = "d"

IsDir(t, place) ==
  \/ place \in {RootDir, AboveWorkDir, WorkDir, DestDir}
  \/ InDest(place) /\ [path |-> RelPath(place), kind |-> "dir"] \in t

\* the place one path component leads to from a directory; the root and the
\* working directory hold nothing but what the model names
StepTo(t, place, component) ==
  IF ~IsDir(t, place) THEN NoPlace
  ELSE IF component = <<".">> THEN place
  ELSE IF component = <<".", ".">>
    THEN IF place = RootDir THEN RootDir
         ELSE IF place \in {AboveWorkDir, WorkDir} THEN AboveWorkDir
         ELSE SubSeq(place, 1, Len(place) - 1)
  ELSE IF place = WorkDir
    THEN IF component = destination THEN DestDir ELSE NoPlace
  ELSE IF InDest(place) /\ Len(component) = 1
          /\ \E e \in t : e.path = Append(RelPath(place), component[1])
    THEN Append(place, component[1])
  ELSE NoPlace

RECURSIVE StepAll(_, _, _)
StepAll(t, place, components) ==
  IF components = <<>> \/ place = NoPlace THEN place
  ELSE StepAll(t, StepTo(t, place, Head(components)), Tail(components))

\* the place a path string names in the tree t, NoPlace if it names nothing
Resolve(t, p) ==
  LET components == SelectSeq(Split(p, "/"), LAMBDA c : c # <<>>)
      start == IF p # <<>> /\ p[1] = "/" THEN RootDir ELSE WorkDir
      place == StepAll(t, start, components)
  IN  IF p = <<>> THEN NoPlace
      ELSE IF p[Len(p)] = "/" /\ ~IsDir(t, place) THEN NoPlace
      ELSE place

\* os.path.exists(p)
Exists(t, p) == Resolve(t, p) # NoPlace

\* path q is path p or lies under it
IsPrefix(p, q) == Len(p) <= Len(q) /\ SubSeq(q, 1, Len(p)) = p

\* the relative path string of an entry: its names joined by "/"
RECURSIVE RelString(_)
RelString(p) ==
  IF p = <<>> THEN <<>>
  ELSE IF Len(p) = 1 THEN <<p[1]>>
  ELSE PathJoin(RelString(SubSeq(p, 1, Len(p) - 1)), <<p[Len(p)]>>)

(***************************************************************************)
(* SiteBuilder.delete_old_files                                            *)
(***************************************************************************)
\* lines 476-478
BeginDelete ==
  /\ pc = "delete"
  /\ kept_todo' = copied_files \cup created_files \cup keep
  /\ kept_paths' = {}
  /\ containing_dirs' = {}
  /\ tree_before' = tree
  /\ pc' = "collect"
  /\ UNCHANGED <<raised, tree, keep, created_files, copied_files, parent, walk_stack,
                 link_vars, parse_vars, extra_vars>>

\* lines 479-483: one kept file, in the order the set yields them
KeepFile ==
  /\ pc = "collect"
  /\ \E keep_file \in kept_todo :
       LET fullpath == PathJoin(destination, keep_file) IN
         /\ kept_todo' = kept_todo \ {keep_file}
         /\ IF Exists(tree, fullpath)
              THEN /\ kept_paths' = kept_paths \cup {fullpath}
                   /\ parent' = DirName(keep_file)
                   /\ pc' = "parents"
              ELSE UNCHANGED <<kept_paths, parent, pc>>
  /\ UNCHANGED <<raised, tree, tree_before, keep, created_files, copied_files,
                 containing_dirs, walk_stack, link_vars, parse_vars, extra_vars>>

\* lines 484-486: the test of the while loop and one turn of it
ParentStep ==
  /\ pc = "parents"
  /\ IF parent # <<>>
       THEN /\ containing_dirs' = containing_dirs \cup {PathJoin(destination, parent)}
            /\ parent' = DirName(parent)
            /\ UNCHANGED pc
       ELSE /\ pc' = "collect"
            /\ UNCHANGED <<containing_dirs, parent>>
  /\ UNCHANGED <<raised, tree, tree_before, keep, created_files, copied_files, kept_todo,
                 kept_paths, walk_stack, link_vars, parse_vars, extra_vars>>

\* line 487: os.walk(self.destination) starts at the top
BeginWalk ==
  /\ pc = "collect"
  /\ kept_todo = {}
  /\ walk_stack' = << [dirpath |-> destination, path |-> <<>>] >>
  /\ pc' = "walk"
  /\ UNCHANGED <<raised, tree, tree_before, keep, created_files, copied_files, kept_todo,
                 kept_paths, containing_dirs, parent, link_vars, parse_vars, extra_vars>>

\* a walk that lists no files: lines 500-502 never run
Listing_no_files(t, p, kind) ==
  IF kind = "file" THEN {}
  ELSE { e.path[Len(e.path)] : e \in { f \in t : f.kind = kind /\ Len(f.path) = Len(p) + 1
                                                 /\ IsPrefix(p, f.path) } }

\* the names of the entries of one kind in the directory at the names p
Listing(t, p, kind) ==
  { e.path[Len(e.path)] : e \in { f \in t : f.kind = kind /\ Len(f.path) = Len(p) + 1
                                            /\ IsPrefix(p, f.path) } }

\* every order of the elements of a set
Orders(S) == { order \in [1..Cardinality(S) -> S] : Range(order) = S }

\* lines 487-503: os.walk yields one directory; its subdirectories are kept,
\* queued for a visit or removed, its files are kept or removed
WalkDir ==
  /\ pc = "walk"
  /\ walk_stack # <<>>
  /\ LET dirpath == Head(walk_stack).dirpath
         here == Head(walk_stack).path
         dirnames == Listing(tree, here, "dir")
         filenames == Listing(tree, here, "file")
         kept_dirs == { n \in dirnames : PathJoin(dirpath, <<n>>) \in kept_paths }
         dirs_to_check == { n \in dirnames \ kept_dirs :
                              PathJoin(dirpath, <<n>>) \in containing_dirs }
         removed == (dirnames \ (kept_dirs \cup dirs_to_check))
                      \cup { n \in filenames : PathJoin(dirpath, <<n>>) \notin kept_paths }
     IN  /\ tree' = { e \in tree : \A n \in removed : ~IsPrefix(Append(here, n), e.path) }
         /\ \E order \in Orders(dirs_to_check) :
              walk_stack' = [k \in 1..Len(order) |->
                               [dirpath |-> PathJoin(dirpath, <<order[k]>>),
                                path |-> Append(here, order[k])]]
                            \o Tail(walk_stack)
  /\ pc' = IF walk_stack' = <<>> THEN "done" ELSE "walk"
  /\ UNCHANGED <<raised, tree_before, keep, created_files, copied_files, kept_todo,
                 kept_paths, containing_dirs, parent, link_vars, parse_vars, extra_vars>>

NextDelete ==
  \/ BeginDelete
  \/ KeepFile
  \/ ParentStep
  \/ BeginWalk
  \/ WalkDir

(***************************************************************************)
(* The destinations and path sets delete_old_files can start from.         *)
(***************************************************************************)
Names == {"a", "b"}

TreePaths == { <<x>> : x \in Names } \cup { <<x, y>> : x \in Names, y \in Names }

\* every tree over TreePaths: one kind per entry, every entry in a directory
Trees ==
  { t \in SUBSET [path : TreePaths, kind : {"file", "dir"}] :
      /\ \A e, f \in t : e.path = f.path => e.kind = f.kind
      /\ \A e \in t : Len(e.path) = 2 => [path |-> <<e.path[1]>>, kind |-> "dir"] \in t }

KeepChars == {"a", "/", "."}

\* longer keep entries: a doubled slash, a "." and a ".." inside the path,
\* and paths with the second name
LongKeepStrings ==
  { <<"a", "/", "/", "a">>, <<"a", "/", ".", "/", "a">>,
    <<"a", "/", ".", ".", "/", "b">>, <<"a", "/", "b">>, <<"b">> }

KeepStrings == UNION { [1..n -> KeepChars] : n \in 0..MaxKeepLen } \cup LongKeepStrings

\* the relative paths of the files of a tree
FilesOf(t) == { RelString(e.path) : e \in { f \in t : f.kind = "file" } }

InitDelete ==
  /\ pc = "delete"
  /\ raised = NoException
  /\ tree \in Trees
  /\ tree_before = tree
  /\ keep \in {{}} \cup { {k} : k \in KeepStrings }
  /\ created_files \in {{}} \cup { {f} : f \in FilesOf(tree) }
  /\ copied_files \in {{}} \cup { {f} : f \in FilesOf(tree) }
  /\ created_files = {} \/ copied_files = {}
  /\ kept_todo = {}
  /\ kept_paths = {}
  /\ containing_dirs = {}
  /\ parent = <<>>
  /\ walk_stack = <<>>
  /\ LinkIdle
  /\ ParseIdle
  /\ ExtraIdle

SpecDelete == InitDelete /\ [][NextDelete]_vars

(***************************************************************************)
(* delete_old_files called again on what it left (SpecDeleteTwice).        *)
(***************************************************************************)
\* a second call with the same copied_files, created_files and keep, and
\* nothing changed in the destination since the first returned
RunAgain ==
  /\ pc = "done"
  /\ run < MaxRuns
  /\ run' = run + 1
  /\ pc' = "delete"
  /\ UNCHANGED <<raised, recon_vars, link_vars, parse_vars, listed, source,
                 exit_status, pages>>

NextDeleteTwice ==
  \/ NextDelete
  \/ RunAgain

SpecDeleteTwice == InitDelete /\ [][NextDeleteTwice]_vars

(***************************************************************************)
(* delete_old_files while another process removes entries of the           *)
(* destination (SpecDeleteRace): the walk of lines 487-503 in the steps    *)
(* the file system sees.                                                   *)
(***************************************************************************)
\* line 487: os.walk lists the directory it yields, in the order of the
\* file system
ListDir ==
  /\ pc = "walk"
  /\ walk_stack # <<>>
  /\ \E dirnames \in Orders(Listing(tree, Head(walk_stack).path, "dir")) :
     \E filenames \in Orders(Listing(tree, Head(walk_stack).path, "file")) :
       listed' = <<[dirnames |-> dirnames, filenames |-> filenames]>>
  /\ pc' = "listed"
  /\ UNCHANGED <<raised, recon_vars, link_vars, parse_vars, run, source, exit_status, pages>>

\* another process removes an entry of the listed directory
Vanish ==
  /\ pc = "listed"
  /\ \E e \in tree :
       /\ Len(e.path) = Len(Head(walk_stack).path) + 1
       /\ IsPrefix(Head(walk_stack).path, e.path)
       /\ tree' = { f \in tree : ~IsPrefix(e.path, f.path) }
  /\ UNCHANGED <<pc, raised, tree_before, keep, created_files, copied_files, kept_todo,
                 kept_paths, containing_dirs, parent, walk_stack, link_vars, parse_vars,
                 extra_vars>>

\* lines 489-497 from the n-th listed subdirectory on: acc has the tree, the
\* subdirectories to visit and the exception raised so far
RECURSIVE ForSubdirs(_, _, _, _, _)
ForSubdirs(acc, dirpath, here, dirnames, n) ==
  IF n > Len(dirnames) \/ acc.raised # NoException THEN acc
  ELSE LET subdirpath == PathJoin(dirpath, <<dirnames[n]>>)
           entry == Append(here, dirnames[n])
       IN  IF subdirpath \in kept_paths
             THEN ForSubdirs(acc, dirpath, here, dirnames, n + 1)
           ELSE IF subdirpath \in containing_dirs
             THEN ForSubdirs([acc EXCEPT !.dirs_to_check = Append(@, dirnames[n])],
                             dirpath, here, dirnames, n + 1)
           ELSE IF \E e \in acc.tree : e.path = entry
             THEN ForSubdirs([acc EXCEPT !.tree = { e \in @ : ~IsPrefix(entry, e.path) }],
                             dirpath, here, dirnames, n + 1)
           ELSE [acc EXCEPT !.raised = Exception("FileNotFoundError", 496)]

\* lines 499-503 from the n-th listed file on
RECURSIVE ForFiles(_, _, _, _, _)
ForFiles(acc, dirpath, here, filenames, n) ==
  IF n > Len(filenames) \/ acc.raised # NoException THEN acc
  ELSE LET filepath == PathJoin(dirpath, <<filenames[n]>>)
           entry == Append(here, filenames[n])
       IN  IF filepath \in kept_paths
             THEN ForFiles(acc, dirpath, here, filenames, n + 1)
           ELSE IF \E e \in acc.tree : e.path = entry
             THEN ForFiles([acc EXCEPT !.tree = { e \in @ : e.path # entry }],
                           dirpath, here, filenames, n + 1)
           ELSE [acc EXCEPT !.raised = Exception("FileNotFoundError", 502)]

\* lines 488-503: the body of the loop for the listed directory
ProcessDir ==
  /\ pc = "listed"
  /\ LET dirpath == Head(walk_stack).dirpath
         here == Head(walk_stack).path
         start == [tree |-> tree, dirs_to_check |-> <<>>, raised |-> NoException]
         dirs == ForSubdirs(start, dirpath, here, listed[1].dirnames, 1)
         end == ForFiles(dirs, dirpath, here, listed[1].filenames, 1)
     IN  /\ tree' = end.tree
         /\ raised' = end.raised
         /\ walk_stack' = [k \in 1..Len(end.dirs_to_check) |->
                             [dirpath |-> PathJoin(dirpath, <<end.dirs_to_check[k]>>),
                              path |-> Append(here, end.dirs_to_check[k])]]
                          \o Tail(walk_stack)
         /\ pc' = IF end.raised # NoException THEN "raised"
                  ELSE IF walk_stack' = <<>> THEN "done" ELSE "walk"
  /\ listed' = <<>>
  /\ UNCHANGED <<tree_before, keep, created_files, copied_files, kept_todo,
                 kept_paths, containing_dirs, parent, link_vars, parse_vars,
                 run, source, exit_status, pages>>

NextDeleteRace ==
  \/ BeginDelete
  \/ KeepFile
  \/ ParentStep
  \/ BeginWalk
  \/ ListDir
  \/ Vanish
  \/ ProcessDir

\* the keep entries of the runs with another process
RaceKeepStrings == LongKeepStrings \cup { <<"a">>, <<"a", "/">> }

InitDeleteRace ==
  /\ InitDelete
  /\ keep \subseteq RaceKeepStrings

SpecDeleteRace == InitDeleteRace /\ [][NextDeleteRace]_vars

(***************************************************************************)
(* SiteBuilder.__init__ and SiteBuilder.render_templates (SpecStartup).    *)
(* A file name such as index.html is one symbol of a path string.          *)
(***************************************************************************)
\* the outcome of a method: the exit status or the exception it ended with
Outcome(status, exception) == [exit_status |-> status, raised |-> exception]

\* lines 316-325: the tests of the source directory; source_path, named at
\* lines 317 and 320, is not defined anywhere
InitOutcome(src) ==
  IF src.kind = "missing" THEN Outcome(NoExit, Exception("NameError", 317))
  ELSE IF src.kind # "dir" THEN Outcome(NoExit, Exception("NameError", 320))
  ELSE IF "songs" \notin src.subdirs \/ "templates" \notin src.subdirs
    THEN Outcome(EX_NOINPUT, NoException)
  ELSE Outcome(NoExit, NoException)

\* lines 307-330
SiteBuilderInit ==
  /\ pc = "init"
  /\ exit_status' = InitOutcome(source).exit_status
  /\ raised' = InitOutcome(source).raised
  /\ pc' = IF raised' # NoException THEN "raised"
           ELSE IF exit_status' # NoExit THEN "exited"
           ELSE "ready"
  /\ UNCHANGED <<link_vars, parse_vars, recon_vars, run, listed, source, pages>>

\* one call of render_template
Job(output_path, template_name, optional) ==
  [output_path |-> output_path, template_name |-> template_name, optional |-> optional]

\* lines 424-436: the calls of render_template, in order
RenderJobs(sgs, cats) ==
  << Job(<<>>, "index.html", FALSE),
     Job(<<"songs">>, "songs.html", FALSE),
     Job(<<"categories">>, "categories.html", FALSE) >>
  \o [n \in 1..Len(cats) |->
        Job(PathJoin(<<"categories">>, CategorySlug(cats[n])), "category.html", FALSE)]
  \o [n \in 1..Len(sgs) |->
        Job(PathJoin(<<"songs">>, SongSlug(sgs[n])), "song.html", FALSE)]
  \o << Job(<<"about">>, "about.html", TRUE),
        Job(<<"bytitle">>, "bytitle.html", TRUE),
        Job(<<"bycategory">>, "bycategory.html", TRUE),
        Job(<<"firstlines">>, "firstlines.html", TRUE) >>

\* the names of a path string without "." and ".." in it
NamesOf(p) ==
  LET components == SelectSeq(Split(p, "/"), LAMBDA c : c # <<>>)
  IN  [n \in 1..Len(components) |-> components[n][1]]

\* lines 375-393: mkdir_f_p for the directory at the names given, from its
\* n-th name on: a file in the way is removed, a missing directory made
RECURSIVE MkdirFP(_, _, _)
MkdirFP(t, names, n) ==
  IF n > Len(names) THEN t
  ELSE LET prefix == SubSeq(names, 1, n)
       IN  MkdirFP({ e \in t : e.path # prefix \/ e.kind = "dir" }
                     \cup {[path |-> prefix, kind |-> "dir"]}, names, n + 1)

\* lines 394-422 for the jobs from the n-th on; acc has the destination, the
\* created files and the outcome so far
RECURSIVE RenderFrom(_, _, _, _)
RenderFrom(acc, src, jobs, n) ==
  IF n > Len(jobs) \/ acc.exit_status # NoExit \/ acc.raised # NoException THEN acc
  ELSE LET job == jobs[n]
           output_filename == PathJoin(job.output_path, <<"index.html">>)
           names == NamesOf(output_filename)
           made == MkdirFP(acc.tree, SubSeq(names, 1, Len(names) - 1), 1)
       IN  IF job.template_name \notin src.templates
             THEN IF job.optional THEN RenderFrom(acc, src, jobs, n + 1)
                  ELSE [acc EXCEPT !.exit_status = EX_NOINPUT]
           ELSE IF job.template_name \in src.broken
             THEN [acc EXCEPT !.exit_status = EX_DATAERR]
           ELSE IF [path |-> names, kind |-> "dir"] \in made
             THEN [acc EXCEPT !.tree = made, !.raised = Exception("NameError", 419)]
           ELSE RenderFrom([acc EXCEPT !.tree = made \cup {[path |-> names, kind |-> "file"]},
                                       !.created_files = @ \cup {output_filename}],
                           src, jobs, n + 1)

\* render_templates() on the destination t
RenderOutcome(t, src, sgs, cats) ==
  RenderFrom([tree |-> t, created_files |-> {}, exit_status |-> NoExit,
              raised |-> NoException], src, RenderJobs(sgs, cats), 1)

\* lines 372-436; a page written holds what was rendered
RenderTemplates ==
  /\ pc = "render"
  /\ LET end == RenderOutcome(tree, source, songs, categories)
     IN  /\ tree' = end.tree
         /\ created_files' = end.created_files
         /\ pages' = { f \in pages \cup end.created_files :
                         [path |-> NamesOf(f), kind |-> "file"] \in end.tree }
         /\ exit_status' = end.exit_status
         /\ raised' = end.raised
         /\ pc' = IF end.raised # NoException THEN "raised"
                  ELSE IF end.exit_status # NoExit THEN "exited"
                  ELSE "rendered"
  /\ UNCHANGED <<link_vars, parse_vars, tree_before, keep, copied_files, kept_todo,
                 kept_paths, containing_dirs, parent, walk_stack, run, listed, source>>

NextStartup ==
  \/ SiteBuilderInit
  \/ RenderTemplates

\* the templates render_templates asks for
RequiredTemplates == {"index.html", "songs.html", "categories.html", "category.html", "song.html"}

OptionalTemplates == {"about.html", "bytitle.html", "bycategory.html", "firstlines.html"}

\* a source directory with its two subdirectories, its templates, and at
\* most one template with a syntax error
CompleteSources ==
  { [kind |-> "dir", subdirs |-> {"songs", "templates"}, templates |-> T, broken |-> B,
     static |-> {}] :
      T \in SUBSET (RequiredTemplates \cup OptionalTemplates),
      B \in {{}} \cup { {x} : x \in RequiredTemplates \cup OptionalTemplates } }

\* no source, a file in its place, or a directory without a subdirectory
IncompleteSources ==
  { [kind |-> k, subdirs |-> {}, templates |-> {}, broken |-> {}, static |-> {}] :
      k \in {"missing", "file"} }
  \cup { [kind |-> "dir", subdirs |-> S, templates |-> {}, broken |-> {}, static |-> {}] :
          S \in {{}, {"songs"}, {"templates"}} }

\* the song books of the runs: no song or one, no category or one
BookSongs == { <<>>, <<Song(<<"a">>, <<>>, <<>>, <<>>)>> }

BookCategories == { <<>>, <<Category(<<"a">>)>> }

\* the destinations of the runs: empty, a directory where the first page
\* goes, a file where the directory of the songs goes
StartTrees ==
  { {}, {[path |-> <<"index.html">>, kind |-> "dir"]}, {[path |-> <<"songs">>, kind |-> "file"]} }

InitStartup ==
  /\ raised = NoException
  /\ ParseIdle
  /\ songs_by_slug = <<>> /\ category_names = <<>> /\ categories_by_slug = <<>>
  /\ link_index = 0
  /\ tree_before = {} /\ keep = {} /\ created_files = {} /\ copied_files = {}
  /\ kept_todo = {} /\ kept_paths = {} /\ containing_dirs = {} /\ parent = <<>>
  /\ walk_stack = <<>>
  /\ run = 1 /\ listed = <<>> /\ exit_status = NoExit /\ pages = {}
  /\ \/ /\ pc = "init"
        /\ source \in IncompleteSources \cup CompleteSources
        /\ source.broken = {}
        /\ songs = <<>> /\ categories = <<>> /\ tree = {}
     \/ /\ pc = "render"
        /\ source \in CompleteSources
        /\ source.broken \subseteq source.templates
        /\ songs \in BookSongs
        /\ categories \in BookCategories
        /\ tree \in StartTrees

SpecStartup == InitStartup /\ [][NextStartup]_vars

(***************************************************************************)
(* SiteBuilder.observed_event, after build_site (SpecWatch).               *)
(***************************************************************************)
\* lines 528-549 for an event of the static file rel_path; st has the
\* destination, the file sets, the pages and the exception raised so far
ObservedStatic(st, event_type, rel_path) ==
  LET names == NamesOf(rel_path)
      is_dir == [path |-> names, kind |-> "dir"] \in st.tree
      is_file == [path |-> names, kind |-> "file"] \in st.tree
  IN  IF st.raised # NoException THEN st
      ELSE IF event_type = "created" /\ rel_path \in st.created_files THEN st
      ELSE IF event_type \in {"created", "modified"}
        THEN IF is_dir THEN [st EXCEPT !.raised = Exception("NameError", 539)]
             ELSE [st EXCEPT !.tree = @ \cup {[path |-> names, kind |-> "file"]},
                             !.pages = @ \ {rel_path},
                             !.copied_files = @ \cup {rel_path}]
      ELSE IF is_dir THEN [st EXCEPT !.raised = Exception("IsADirectoryError", 544)]
      ELSE IF ~is_file THEN st
      ELSE IF rel_path \notin st.copied_files
        THEN [st EXCEPT !.tree = @ \ {[path |-> names, kind |-> "file"]},
                        !.pages = @ \ {rel_path},
                        !.raised = Exception("KeyError", 545)]
      ELSE [st EXCEPT !.tree = @ \ {[path |-> names, kind |-> "file"]},
                      !.pages = @ \ {rel_path},
                      !.copied_files = @ \ {rel_path}]

\* the state observed_event works on
WatchState ==
  [tree |-> tree, created_files |-> created_files, copied_files |-> copied_files,
   pages |-> pages, raised |-> NoException]

\* observed_event has handled the event of a static file
Handled(st) ==
  /\ tree' = st.tree
  /\ copied_files' = st.copied_files
  /\ pages' = st.pages
  /\ raised' = st.raised
  /\ pc' = IF st.raised # NoException THEN "raised" ELSE "watch"
  /\ UNCHANGED <<link_vars, parse_vars, tree_before, keep, created_files, kept_todo,
                 kept_paths, containing_dirs, parent, walk_stack, run, listed, exit_status>>

\* the files the static directory may hold
StaticNames == { <<"index.html">>, <<"logo">>, <<"songs">> }

Watching == pc \in {"watch", "done"}

\* a file appears in the static directory
StaticCreated ==
  /\ Watching
  /\ \E rel_path \in StaticNames \ source.static :
       /\ source' = [source EXCEPT !.static = @ \cup {rel_path}]
       /\ Handled(ObservedStatic(WatchState, "created", rel_path))

\* a file of the static directory is written to
StaticModified ==
  /\ Watching
  /\ \E rel_path \in source.static :
       /\ UNCHANGED source
       /\ Handled(ObservedStatic(WatchState, "modified", rel_path))

\* a file of the static directory is removed
StaticDeleted ==
  /\ Watching
  /\ \E rel_path \in source.static :
       /\ source' = [source EXCEPT !.static = @ \ {rel_path}]
       /\ Handled(ObservedStatic(WatchState, "deleted", rel_path))

\* lines 509-513: a file of the static directory is renamed
StaticMoved ==
  /\ Watching
  /\ \E src_path \in source.static : \E dest_path \in StaticNames \ source.static :
       /\ source' = [source EXCEPT !.static = (@ \ {src_path}) \cup {dest_path}]
       /\ Handled(ObservedStatic(ObservedStatic(WatchState, "deleted", src_path),
                                 "created", dest_path))

\* lines 516-521: a song file changed; SongBook(...) ends at line 299
SongsChanged ==
  /\ Watching
  /\ raised' = Exception("AttributeError", 299)
  /\ pc' = "raised"
  /\ UNCHANGED <<link_vars, parse_vars, recon_vars, extra_vars>>

\* lines 522-526: a template changed; render_templates is called
TemplatesChanged ==
  /\ Watching
  /\ pc' = "render"
  /\ UNCHANGED <<raised, link_vars, parse_vars, recon_vars, extra_vars>>

\* line 527: delete_old_files is called after render_templates
DeleteAfterRender ==
  /\ pc = "rendered"
  /\ pc' = "delete"
  /\ UNCHANGED <<raised, link_vars, parse_vars, recon_vars, extra_vars>>

NextWatch ==
  \/ StaticCreated
  \/ StaticModified
  \/ StaticDeleted
  \/ StaticMoved
  \/ SongsChanged
  \/ TemplatesChanged
  \/ RenderTemplates
  \/ DeleteAfterRender
  \/ NextDelete

\* lines 438-464 on an empty destination: the static files copied
CopyStatic(static) == { [path |-> NamesOf(f), kind |-> "file"] : f \in static }

\* the sources of the watched sites: every required template, some optional
WatchSources ==
  { [kind |-> "dir", subdirs |-> {"songs", "templates"}, templates |-> RequiredTemplates \cup T,
     broken |-> {}, static |-> S] :
      T \in {{}, {"about.html"}}, S \in SUBSET StaticNames }

\* lines 364-370: the state build_site leaves, from an empty destination
InitWatch ==
  /\ pc = "watch"
  /\ raised = NoException
  /\ ParseIdle
  /\ songs_by_slug = <<>> /\ category_names = <<>> /\ categories_by_slug = <<>>
  /\ link_index = 0
  /\ songs \in BookSongs
  /\ categories \in BookCategories
  /\ source \in WatchSources
  /\ LET built == RenderOutcome(CopyStatic(source.static), source, songs, categories)
     IN  /\ tree = built.tree
         /\ created_files = built.created_files
         /\ pages = built.created_files
  /\ copied_files = source.static
  /\ tree_before = tree /\ keep = {}
  /\ kept_todo = {} /\ kept_paths = {} /\ containing_dirs = {} /\ parent = <<>>
  /\ walk_stack = <<>>
  /\ run = 1 /\ listed = <<>> /\ exit_status = NoExit

SpecWatch == InitWatch /\ [][NextWatch]_vars

(***************************************************************************)
(* What delete_old_files keeps (SpecDelete).                               *)
(***************************************************************************)
\* the entries of t at or under the names p
Subtree(t, p) == { e \in t : IsPrefix(p, e.path) }

\* the place the keep entry k named when delete_old_files started
KeptPlace(k) == Resolve(tree_before, PathJoin(destination, k))

\* the keep entry k named a file or directory under the destination then
NamesEntry(k) == InDest(KeptPlace(k)) /\ RelPath(KeptPlace(k)) # <<>>

\* C2: every file or directory under the destination that a keep entry names
\* when delete_old_files starts is still there afterwards, with its whole
\* subtree and with every directory above it up to the destination.
C2_KeepEntriesSurvive ==
  pc = "done" =>
    \A k \in keep :
      NamesEntry(k) =>
        /\ Subtree(tree, RelPath(KeptPlace(k))) = Subtree(tree_before, RelPath(KeptPlace(k)))
        /\ \A n \in 1..Len(RelPath(KeptPlace(k))) :
             \E e \in tree : e.path = SubSeq(RelPath(KeptPlace(k)), 1, n)

(***************************************************************************)
(* What delete_old_files leaves (SpecDelete).                              *)
(***************************************************************************)
\* the paths to preserve that named something when delete_old_files started
Preserved ==
  { k \in created_files \cup copied_files \cup keep :
      Exists(tree_before, PathJoin(destination, k)) }

\* the directory paths above a path, as the path string spells them
RECURSIVE AncestorStrings(_)
AncestorStrings(p) ==
  LET d == DirName(p)
  IN  IF d = <<>> THEN {}
      ELSE IF d = p THEN {d}
      ELSE {d} \cup AncestorStrings(d)

\* the place of an entry of the destination
PlaceOf(e) == DestDir \o e.path

\* the entry is what the preserved path k names
IsPreserved(e, k) == KeptPlace(k) = PlaceOf(e)

\* the entry lies inside the directory the preserved path k names
InsidePreserved(e, k) ==
  /\ IsDir(tree_before, KeptPlace(k))
  /\ \/ KeptPlace(k) \in {RootDir, AboveWorkDir, WorkDir, DestDir}
     \/ InDest(KeptPlace(k)) /\ IsPrefix(RelPath(KeptPlace(k)), e.path)

\* the entry is a directory above the preserved path k
AbovePreserved(e, k) ==
  /\ e.kind = "dir"
  /\ \E a \in AncestorStrings(k) :
       Resolve(tree_before, PathJoin(destination, a)) = PlaceOf(e)

MayStay(e) ==
  \E k \in Preserved : IsPreserved(e, k) \/ InsidePreserved(e, k) \/ AbovePreserved(e, k)

\* C13: when delete_old_files has ended, every entry left under the
\* destination was there before and is named by an existing generated, copied
\* or keep path, lies inside a directory so named, or is a directory above
\* such a path; every other entry that was there has been deleted.
C13_OnlyPreservedLeft ==
  pc = "done" => /\ tree \subseteq tree_before
                 /\ \A e \in tree : MayStay(e)

\* a run that deleted an entry and left a preserved file, a directory above a
\* preserved path, and an entry inside a preserved directory
C13_Witness ==
  /\ pc = "done"
  /\ tree # tree_before
  /\ \E e \in tree : e.kind = "file" /\ \E k \in Preserved : IsPreserved(e, k)
  /\ \E e \in tree : \E k \in Preserved :
       AbovePreserved(e, k) /\ ~IsPreserved(e, k) /\ ~InsidePreserved(e, k)

(***************************************************************************)
(* delete_old_files run twice (SpecDeleteTwice).                           *)
(***************************************************************************)
\* C14: a second run of delete_old_files, with the same sets and nothing
\* changed since the first, deletes nothing: the destination it ends with is
\* the one it started from.
C14_SecondRunDeletesNothing ==
  (run = 2 /\ pc \notin {"delete", "collect", "parents"}) => tree = tree_before

\* a second run has ended after a first one that deleted an entry
C14_Witness ==
  run = 2 /\ pc = "done" /\ tree = tree_before /\ keep # {} /\ tree # {}

(***************************************************************************)
(* delete_old_files and a vanishing entry (SpecDeleteRace).                *)
(***************************************************************************)
\* C15: when an entry the walk has listed is gone before its deletion is
\* attempted, delete_old_files raises no error and goes on: it ends with
\* nothing left but what may stay.
C15_VanishedTolerated ==
  /\ raised.exc # "FileNotFoundError"
  /\ pc = "done" => \A e \in tree : MayStay(e)

(***************************************************************************)
(* The exits of a pass that cannot start (SpecStartup).                    *)
(***************************************************************************)
\* the templates render_templates cannot do without for a song book
RequiredFor(sgs, cats) ==
  {"index.html", "songs.html", "categories.html"}
    \cup (IF cats # <<>> THEN {"category.html"} ELSE {})
    \cup (IF sgs # <<>> THEN {"song.html"} ELSE {})

Conditions ==
  {"source missing", "source not a directory", "subdirectory missing",
   "required template missing"}

\* the structural condition a source fails for a song book, "none" if none
FailedCondition(src, sgs, cats) ==
  IF src.kind = "missing" THEN "source missing"
  ELSE IF src.kind # "dir" THEN "source not a directory"
  ELSE IF ~({"songs", "templates"} \subseteq src.subdirs) THEN "subdirectory missing"
  ELSE IF ~(RequiredFor(sgs, cats) \subseteq src.templates) THEN "required template missing"
  ELSE "none"

\* how a pass ends that fails the condition and nothing else
ConditionOutcome(c) ==
  LET bare(k, S) == [kind |-> k, subdirs |-> S, templates |-> {}, broken |-> {},
                     static |-> {}]
      end == RenderOutcome({}, bare("dir", {"songs", "templates"}), <<>>, <<>>)
  IN  IF c = "source missing" THEN InitOutcome(bare("missing", {}))
      ELSE IF c = "source not a directory" THEN InitOutcome(bare("file", {}))
      ELSE IF c = "subdirectory missing" THEN InitOutcome(bare("dir", {"templates"}))
      ELSE Outcome(end.exit_status, end.raised)

\* the pass ended on a structural condition: no template of the source has a
\* syntax error, no directory is where the first page goes
EndedOnCondition ==
  /\ pc \in {"exited", "raised"}
  /\ FailedCondition(source, songs, categories) # "none"
  /\ source.broken = {}
  /\ [path |-> <<"index.html">>, kind |-> "dir"] \notin tree

\* C16: each of the four structural conditions (no source, a source that is
\* not a directory, no songs or templates subdirectory, a required template
\* missing) ends the pass with a process exit that carries a status code, and
\* the status code of one condition is not that of another.
C16_DistinctExits ==
  EndedOnCondition =>
    /\ raised = NoException
    /\ exit_status # NoExit
    /\ \A c \in Conditions \ {FailedCondition(source, songs, categories)} :
         ConditionOutcome(c).exit_status # exit_status

\* the part of C16 that the code keeps: a missing subdirectory and a missing
\* required template end the pass with sys.exit(os.EX_NOINPUT)
C16_ExitsNoInput ==
  (EndedOnCondition /\ source.kind = "dir") =>
    raised = NoException /\ exit_status = EX_NOINPUT

RECURSIVE EndsWithin(_, _)
EndsWithin(p, n) ==
  IF p = <<>> THEN TRUE
  ELSE IF n = 0 THEN FALSE
  ELSE EndsWithin(DirName(p), n - 1)

\* C18: for every keep path, relative or absolute, the loop over the parents
\* of the path reaches the empty parent after finitely many turns (a turn
\* never makes the parent longer, so within as many turns as it has
\* characters), and delete_old_files goes on to its end.
C18_ParentLoopEnds == pc = "parents" => EndsWithin(parent, Len(parent))

\* C18 for the relative paths: the loop ends for every path that does not
\* start with a slash
C18_RelativeParentLoopEnds ==
  (pc = "parents" /\ parent # <<>> /\ parent[1] # "/") => EndsWithin(parent, Len(parent))

====
